---------------------------- MODULE Spec2Model ----------------------------
(***************************************************************************)
(* A model of app.py, the Streamlit dashboard of the repository.           *)
(*                                                                         *)
(* One run of the script is load_data() (cached after its first success)   *)
(* followed by the branch of the page chosen in the sidebar.  The state is *)
(* the four CSV files on disk, the draws of the generator seeded with 42,  *)
(* the four cached tables, the selections of the run's widgets and the     *)
(* tables the run derived.  A table is the sequence of its rows; a row is  *)
(* a record of the columns the page code computes with.                    *)
(*                                                                         *)
(* No line of app.py catches an exception: a run stops at the line that    *)
(* raises, and `done` holds the steps it completed before.                 *)
(*                                                                         *)
(* Numbers are exact: a fitted coefficient or a centroid is a fraction     *)
(* [num, den]; floating-point rounding is not modelled.  The figures built *)
(* by plotly and the rows sampled for the scatter map are not modelled.    *)
(***************************************************************************)
EXTENDS Integers, Sequences, FiniteSets, TLC

VARIABLES disk, stream, cached, stations, models, country_summary, world_summary,
          page, brand, year, outcome, raised, done,
          stations_count, top10, charger_counts, filtered, infra,
          growth, model, future_years, model2, future_idx

tables == <<stations, models, country_summary, world_summary>>
widgets == <<page, brand, year>>
derived == <<stations_count, top10, charger_counts, filtered, infra,
             growth, model, future_years, model2, future_idx>>
vars == <<disk, stream, cached, tables, widgets, outcome, raised, done, derived>>

----------------------------------------------------------------------------
(* Bounds of the model *)

MaxStations == 3        \* rows of an exhaustively enumerated stations file
MaxCountries == 12      \* distinct country codes of a wide stations file
MaxModels == 3          \* rows of a models file
MaxSummaryRows == 4     \* rows of a country_summary file
MaxWorldRows == 3       \* rows of a world_summary file
MaxSeries == 3          \* points of a series handed to the Forecaster alone

----------------------------------------------------------------------------
(* Program constants *)

TopN == 10              \* .head(10)
NClusters == 3          \* KMeans(n_clusters=3, ...)
HorizonYear == 2030     \* range(growth["first_year"].min(), 2030)
ExtraPeriods == 5       \* range(len(world_summary) + 5)
KMeansMaxIter == 300    \* KMeans(...) default max_iter
NaNYear == -1           \* the missing value (NaN) of the first_year column
NaNCode == "NaN"        \* the missing value (NaN) of the country_code column

----------------------------------------------------------------------------
(* Generic helpers *)

Min(a, b) == IF a <= b THEN a ELSE b
Abs(a) == IF a < 0 THEN 0 - a ELSE a
Range(s) == {s[i] : i \in 1..Len(s)}
SeqsUpTo(S, n) == UNION {[1..k -> S] : k \in 0..n}
\* The sequence f with its elements computed once (TLC evaluates a function
\* constructor anew at every application).
Rows(f) == f \o <<>>

RECURSIVE SumSeq(_)
SumSeq(s) == IF s = <<>> THEN 0 ELSE Head(s) + SumSeq(Tail(s))

RECURSIVE SortAsc(_)
\* The elements of a finite set of integers, ascending.
SortAsc(S) == IF S = {} THEN <<>>
              ELSE LET m == CHOOSE y \in S : \A z \in S : y <= z
                   IN <<m>> \o SortAsc(S \ {m})

----------------------------------------------------------------------------
(* The CSV files and pd.read_csv *)

\* Country codes in lexicographic order; a code's rank is its position.
Countries == <<"AT", "BE", "CA", "DE", "ES", "FR", "GB",
               "IN", "IT", "JP", "NL", "NO", "SE", "US">>
Rank(c) == CHOOSE i \in 1..Len(Countries) : Countries[i] = c

\* pd.read_csv with its default na_values: the cells "" and "NA" (which is
\* also the ISO code of Namibia) are read as the missing value.
NaStrings == {"", "NA"}
ReadCode(cell) == IF cell \in NaStrings THEN NaNCode ELSE cell

ReadStations(file) ==
    Rows([i \in 1..Len(file) |->
            [country_code |-> ReadCode(file[i].country_code),
             is_fast_dc |-> file[i].is_fast_dc]])

FileNames == {"clean_ev_stations.csv", "clean_ev_models.csv",
              "clean_country_summary.csv", "clean_world_summary.csv"}

\* The first_year, stations and count cells are kept as the numbers read_csv
\* parses them to (NaNYear for an empty first_year cell).
ReadCsv(d) ==
    [stations |-> ReadStations(d.stations),
     models |-> d.models,
     country_summary |-> d.country_summary,
     world_summary |-> d.world_summary]

\* read_csv raises FileNotFoundError for a file that is not there.
FilesMissing(d) == d.present # FileNames

----------------------------------------------------------------------------
(* The inputs the model runs on *)

CodeCells == {"IN", "US", "NA"}
Makes == {"A", "B"}
Years == {2020, 2021, 2030}
StationCounts == {1, 9}
WorldCounts == {10, 20, 30}

StationRows == [country_code : CodeCells, is_fast_dc : BOOLEAN]
ModelRows == [make : Makes, first_year : Years \cup {NaNYear}]

\* A wide stations file: the first m countries, the i-th with (i+1) \div 2
\* stations, its rows in blocks by ascending or by descending country code.
RECURSIVE Block(_, _)
Block(c, n) == IF n = 0 THEN <<>>
               ELSE <<[country_code |-> c, is_fast_dc |-> FALSE]>> \o Block(c, n - 1)

RECURSIVE WideAsc(_, _)
WideAsc(i, m) == IF i > m THEN <<>>
                 ELSE Block(Countries[i], (i + 1) \div 2) \o WideAsc(i + 1, m)

RECURSIVE WideDesc(_)
WideDesc(m) == IF m = 0 THEN <<>>
               ELSE Block(Countries[m], (m + 1) \div 2) \o WideDesc(m - 1)

WideStationFiles ==
    {WideAsc(1, m) : m \in (TopN - 1)..MaxCountries}
        \cup {WideDesc(m) : m \in (TopN - 1)..MaxCountries}

StationFiles == SeqsUpTo(StationRows, MaxStations) \cup WideStationFiles
ModelFiles == SeqsUpTo(ModelRows, MaxModels)

\* country_code is the unique key of country_summary: row i is country i.
SummaryFiles ==
    {[i \in 1..Len(v) |-> [country_code |-> Countries[i], stations |-> v[i]]] :
        v \in SeqsUpTo(StationCounts, MaxSummaryRows)}
WorldFiles ==
    {[i \in 1..Len(v) |-> [count |-> v[i]]] : v \in SeqsUpTo(WorldCounts, MaxWorldRows)}

BaseStations == <<[country_code |-> "US", is_fast_dc |-> TRUE],
                  [country_code |-> "IN", is_fast_dc |-> FALSE]>>
BaseModels == <<[make |-> "A", first_year |-> 2020]>>
BaseSummary == <<[country_code |-> "AT", stations |-> 1],
                 [country_code |-> "BE", stations |-> 2],
                 [country_code |-> "CA", stations |-> 9]>>
BaseWorld == <<[count |-> 10], [count |-> 20], [count |-> 30]>>

Files(s, m, c, w, p) ==
    [present |-> p, stations |-> s, models |-> m,
     country_summary |-> c, world_summary |-> w]

\* One file varies over its whole family while the others hold a base table
\* (each page reads the tables of its own view), or one file is not on disk.
Disks ==
    {Files(s, BaseModels, BaseSummary, BaseWorld, FileNames) : s \in StationFiles}
    \cup {Files(BaseStations, m, BaseSummary, BaseWorld, FileNames) : m \in ModelFiles}
    \cup {Files(BaseStations, BaseModels, c, BaseWorld, FileNames) : c \in SummaryFiles}
    \cup {Files(BaseStations, BaseModels, BaseSummary, w, FileNames) : w \in WorldFiles}
    \cup {Files(BaseStations, BaseModels, BaseSummary, BaseWorld, FileNames \ {f}) :
            f \in FileNames}

\* The draws of a generator seeded with random_state=42: unknown to the
\* model, and the same in every run.  They vary with the summary file only.
Streams == [1..NClusters -> 0..(NClusters - 1)]
BaseStream == [j \in 1..NClusters |-> j - 1]

Inputs ==
    {[disk |-> d, stream |-> BaseStream] : d \in Disks}
    \cup {[disk |-> Files(BaseStations, BaseModels, c, BaseWorld, FileNames),
           stream |-> r] : c \in SummaryFiles, r \in Streams}

----------------------------------------------------------------------------
(* Aggregator: groupby(key).size().reset_index(name=...) *)

\* groupby drops the rows whose key is missing (dropna=True, the default)
\* and lists the groups by ascending key (sort=True, the default).
CodeKeys(t) == {t[i].country_code : i \in 1..Len(t)} \ {NaNCode}
YearKeys(t) == {t[i].first_year : i \in 1..Len(t)} \ {NaNYear}

RECURSIVE CodesAsc(_)
CodesAsc(S) == IF S = {} THEN <<>>
               ELSE LET c == CHOOSE x \in S : \A z \in S : Rank(x) <= Rank(z)
                    IN <<c>> \o CodesAsc(S \ {c})

GroupSizeCode(t, c) == Cardinality({i \in 1..Len(t) : t[i].country_code = c})
GroupSizeYear(t, y) == Cardinality({i \in 1..Len(t) : t[i].first_year = y})

StationsCount(t) ==
    LET ks == CodesAsc(CodeKeys(t))
    IN Rows([i \in 1..Len(ks) |->
               [country_code |-> ks[i], station_count |-> GroupSizeCode(t, ks[i])]])

Growth(t) ==
    LET ks == SortAsc(YearKeys(t))
    IN Rows([i \in 1..Len(ks) |->
               [first_year |-> ks[i], count |-> GroupSizeYear(t, ks[i])]])

\* stations["is_fast_dc"].value_counts(), then the two labels mapped in: the
\* (label, count) rows of the values that occur, kept as a set.
ChargerCounts(t) ==
    LET n(b) == Cardinality({i \in 1..Len(t) : t[i].is_fast_dc = b})
    IN {[type |-> "Fast DC", count |-> n(TRUE)] : k \in {1} \cap 1..n(TRUE)}
       \cup {[type |-> "Slow AC", count |-> n(FALSE)] : k \in {1} \cap 1..n(FALSE)}

----------------------------------------------------------------------------
(* Top 10: sort_values(by="station_count", ascending=False).head(10) *)

\* A slip: ascending=False left out.
RECURSIVE SortValuesAsc(_)
SortValuesAsc(S) ==
    IF S = {} THEN {<<>>}
    ELSE UNION {{<<e>> \o r : r \in SortValuesAsc(S \ {e})} :
                  e \in {x \in S : \A z \in S : x.station_count <= z.station_count}}

\* sort_values sorts with its default kind, quicksort, which is not stable:
\* rows of equal station_count may come out in any order.  The set of the
\* orders a build may produce.
RECURSIVE SortValuesDesc(_)
SortValuesDesc(S) ==
    IF S = {} THEN {<<>>}
    ELSE UNION {{<<e>> \o r : r \in SortValuesDesc(S \ {e})} :
                  e \in {x \in S : \A z \in S : z.station_count <= x.station_count}}

HeadRows(t, n) == SubSeq(t, 1, Min(n, Len(t)))

Top10Outcomes(sc) == {HeadRows(t, TopN) : t \in SortValuesDesc(Range(sc))}

----------------------------------------------------------------------------
(* Filter Engine: the two selectboxes and the boolean-mask filters *)

AllYears == [all |-> TRUE, value |-> 0]
OneYear(v) == [all |-> FALSE, value |-> v]

\* ["All"] + sorted(models[col].unique().tolist()): unique() keeps a missing
\* first_year as one more option.
BrandOptions(t) == {"All"} \cup {t[i].make : i \in 1..Len(t)}
YearOptions(t) == {AllYears} \cup {OneYear(t[i].first_year) : i \in 1..Len(t)}

\* int(year) raises ValueError for the missing value and is the year itself
\* for any other option.
IntRaises(y) == ~y.all /\ y.value = NaNYear
IntOf(v) == v

\* A slip: infra = country_summary, without .copy().
NoCopy(t) == [rows |-> t, aliased |-> TRUE]

\* df.copy() is a new table; `aliased` tells whether a write to the result
\* is a write to the table it was made from.
CopyTable(t) == [rows |-> t, aliased |-> FALSE]

MaskMake(t, b) == SelectSeq(t, LAMBDA r : r.make = b)
MaskYear(t, v) == SelectSeq(t, LAMBDA r : r.first_year = v)

\* A slip: the year mask taken of models instead of filtered.
FilteredYearOfModels(t, b, y) ==
    LET f0 == CopyTable(t).rows
        f1 == IF b # "All" THEN MaskMake(f0, b) ELSE f0
    IN IF ~y.all THEN MaskYear(f0, IntOf(y.value)) ELSE f1

Filtered(t, b, y) ==
    LET f0 == CopyTable(t).rows
        f1 == IF b # "All" THEN MaskMake(f0, b) ELSE f0
    IN IF ~y.all THEN MaskYear(f1, IntOf(y.value)) ELSE f1

----------------------------------------------------------------------------
(* Fractions *)

Frac(n, d) == [num |-> n, den |-> d]
Zero == Frac(0, 1)
FracEq(a, b) == a.num * b.den = b.num * a.den
FracIs(a, k) == a.num = k * a.den

----------------------------------------------------------------------------
(* Cluster Analyzer: KMeans(n_clusters=3, random_state=42).fit_predict *)

\* fit raises ValueError when there are fewer samples than clusters.
KMeansRaises(X) == Len(X) < NClusters

\* The seeded draws pick the rows that are the initial centres.
InitCentres(X, draws) ==
    Rows([j \in 1..NClusters |-> Frac(X[(draws[j] % Len(X)) + 1], 1)])

\* |x - a| < |x - b|
Nearer(x, a, b) == Abs(x * a.den - a.num) * b.den < Abs(x * b.den - b.num) * a.den

\* argmin of the distances: the first of the nearest centres.
NearestCentre(x, c) ==
    CHOOSE j \in 1..NClusters :
        \A k \in 1..NClusters :
            /\ k < j => Nearer(x, c[j], c[k])
            /\ k > j => ~Nearer(x, c[k], c[j])

Assign(X, c) == Rows([i \in 1..Len(X) |-> NearestCentre(X[i], c)])

RECURSIVE SumOver(_, _)
SumOver(X, I) == IF I = {} THEN 0
                 ELSE LET i == CHOOSE k \in I : TRUE IN X[i] + SumOver(X, I \ {i})

\* A centre moves to the mean of its points; one with no point stays.
Recentre(X, lab, c) ==
    Rows([j \in 1..NClusters |->
            LET mem == {i \in 1..Len(X) : lab[i] = j}
            IN IF mem = {} THEN c[j] ELSE Frac(SumOver(X, mem), Cardinality(mem))])

RECURSIVE Lloyd(_, _, _)
Lloyd(X, c, iter) ==
    LET lab == Assign(X, c)
        c2 == Recentre(X, lab, c)
    IN IF iter <= 1 \/ \A j \in 1..NClusters : FracEq(c2[j], c[j])
       THEN lab
       ELSE Lloyd(X, c2, iter - 1)

\* One cluster id in 0..n_clusters-1 per sample, in the samples' order.
FitPredict(X, draws) ==
    LET lab == Lloyd(X, InitCentres(X, draws), KMeansMaxIter)
    IN Rows([i \in 1..Len(X) |-> lab[i] - 1])

\* infra["cluster"] = labels
WithCluster(t, lab) ==
    Rows([i \in 1..Len(t) |->
            [country_code |-> t[i].country_code, stations |-> t[i].stations,
             cluster |-> lab[i]]])

----------------------------------------------------------------------------
(* Forecaster: LinearRegression().fit(X, y) and model.predict *)

\* fit and predict raise ValueError on an array of no samples.
NoSamples(X) == Len(X) = 0

\* A slip: the intercept taken as mean(y), the slope's share left in.
FitInterceptMeanY(X, y) ==
    LET n == Len(X)
        sx == SumSeq(X)
        sy == SumSeq(y)
        sxx == n * SumSeq([i \in 1..n |-> X[i] * X[i]]) - sx * sx
        sxy == n * SumSeq([i \in 1..n |-> X[i] * y[i]]) - sx * sy
    IN IF sxx = 0
       THEN [coef |-> Zero, intercept |-> Frac(sy, n)]
       ELSE [coef |-> Frac(sxy, sxx), intercept |-> Frac(sy, n)]

\* Ordinary least squares of y on x with an intercept.  When x has no
\* variance the minimum-norm solution is slope 0 and intercept mean(y).
LinearRegressionFit(X, y) ==
    LET n == Len(X)
        sx == SumSeq(X)
        sy == SumSeq(y)
        sxx == n * SumSeq([i \in 1..n |-> X[i] * X[i]]) - sx * sx
        sxy == n * SumSeq([i \in 1..n |-> X[i] * y[i]]) - sx * sy
    IN IF sxx = 0
       THEN [coef |-> Zero, intercept |-> Frac(sy, n)]
       ELSE [coef |-> Frac(sxy, sxx),
             intercept |-> Frac(sy * sxx - sxy * sx, n * sxx)]

\* coef * x + intercept
Predict(m, x) ==
    Frac(m.coef.num * x * m.intercept.den + m.intercept.num * m.coef.den,
         m.coef.den * m.intercept.den)

NoModel == [coef |-> Zero, intercept |-> Zero]

\* A slip: the horizon year taken as the last year predicted.
FutureYearsThrough(minYear) == minYear..HorizonYear

\* range(growth["first_year"].min(), 2030)
FutureYears(minYear) == minYear..(HorizonYear - 1)

\* range(len(world_summary) + 5)
FutureIdx(n) == 0..(n + ExtraPeriods - 1)

\* range() raises TypeError for a float: first_year is a float column when
\* any of its cells is missing.
RangeRaises(t) == \E i \in 1..Len(t) : t[i].first_year = NaNYear

\* future_years["prediction"] = model.predict(future_years[["first_year"]])
PredictYears(m, xs) ==
    LET s == SortAsc(xs)
    IN Rows([i \in 1..Len(s) |-> [first_year |-> s[i], prediction |-> Predict(m, s[i])]])

\* future_idx["prediction"] = model2.predict(future_idx[["idx"]])
PredictIdx(m, xs) ==
    LET s == SortAsc(xs)
    IN Rows([i \in 1..Len(s) |-> [idx |-> s[i], prediction |-> Predict(m, s[i])]])

----------------------------------------------------------------------------
(* The pages: what one run of a page's branch leaves behind *)

Pages == {"Overview", "Global Insights", "EV Models",
          "Charging Infrastructure", "EV Forecasts"}

\* The locals of a run before any line of its page has run.
Fresh ==
    [outcome |-> "ok", raised |-> "", done |-> {},
     brand |-> "All", year |-> AllYears,
     stations_count |-> <<>>, top10 |-> <<>>, charger_counts |-> {},
     filtered |-> <<>>, infra |-> <<>>, country_summary |-> <<>>,
     growth |-> <<>>, model |-> NoModel, future_years |-> <<>>,
     model2 |-> NoModel, future_idx |-> <<>>]

\* An exception leaves the run at the line that raised it: nothing in
\* app.py catches it.
Raise(r, exc) == [r EXCEPT !.outcome = "exception", !.raised = exc]

\* Lines 65-104, with the order sort_values gave the ties.
GlobalInsights(st, t10) ==
    [Fresh EXCEPT !.stations_count = StationsCount(st),
                  !.top10 = t10,
                  !.done = {"stations_count", "top10"}]

\* Lines 111-124.
EVModels(md, b, y) ==
    IF IntRaises(y)
    THEN Raise([Fresh EXCEPT !.brand = b, !.year = y], "ValueError")
    ELSE [Fresh EXCEPT !.brand = b, !.year = y,
                       !.filtered = Filtered(md, b, y), !.done = {"filtered"}]

\* Lines 133-166.  `country_summary` is the source table as the run leaves it.
ChargingInfrastructure(st, cs, draws) ==
    LET r1 == [Fresh EXCEPT !.charger_counts = ChargerCounts(st),
                            !.done = {"charger_counts"},
                            !.country_summary = cs]
        copy == CopyTable(cs)
        X == Rows([i \in 1..Len(cs) |-> cs[i].stations])
        lab == WithCluster(copy.rows, FitPredict(X, draws))
    IN IF KMeansRaises(X)
       THEN Raise(r1, "ValueError")
       ELSE [r1 EXCEPT !.infra = lab,
                       !.country_summary = IF copy.aliased THEN lab ELSE cs,
                       !.done = @ \cup {"infra"}]

\* Lines 175-193.
ModelForecast(md) ==
    LET g == Growth(md)
        X == Rows([i \in 1..Len(g) |-> g[i].first_year])
        y == Rows([i \in 1..Len(g) |-> g[i].count])
        r1 == [Fresh EXCEPT !.growth = g, !.done = {"growth"}]
        r2 == [r1 EXCEPT !.model = LinearRegressionFit(X, y),
                         !.done = @ \cup {"model"}]
        xs == FutureYears(X[1])
    IN IF NoSamples(X) THEN Raise(r1, "ValueError")
       ELSE IF RangeRaises(md) THEN Raise(r2, "TypeError")
       ELSE IF xs = {} THEN Raise(r2, "ValueError")
       ELSE [r2 EXCEPT !.future_years = PredictYears(r2.model, xs),
                       !.done = @ \cup {"future_years"}]

\* Lines 195-212, reached when the first tab raised nothing.
StationForecast(r, ws) ==
    LET X2 == Rows([i \in 1..Len(ws) |-> i - 1])
        y2 == Rows([i \in 1..Len(ws) |-> ws[i].count])
        r1 == [r EXCEPT !.model2 = LinearRegressionFit(X2, y2),
                        !.done = @ \cup {"model2"}]
    IN IF NoSamples(X2) THEN Raise(r, "ValueError")
       ELSE [r1 EXCEPT !.future_idx = PredictIdx(r1.model2, FutureIdx(Len(ws))),
                       !.done = @ \cup {"future_idx"}]

EVForecasts(md, ws) ==
    LET r == ModelForecast(md)
    IN IF r.outcome = "exception" THEN r ELSE StationForecast(r, ws)

----------------------------------------------------------------------------
(* The state machine *)

NoTables ==
    /\ stations = <<>>
    /\ models = <<>>
    /\ country_summary = <<>>
    /\ world_summary = <<>>

\* The run's locals replace those of the run before; a selectbox the run
\* did not draw holds no selection.
Leaves(r) ==
    /\ brand' = r.brand
    /\ year' = r.year
    /\ outcome' = r.outcome
    /\ raised' = r.raised
    /\ done' = r.done
    /\ stations_count' = r.stations_count
    /\ top10' = r.top10
    /\ charger_counts' = r.charger_counts
    /\ filtered' = r.filtered
    /\ infra' = r.infra
    /\ growth' = r.growth
    /\ model' = r.model
    /\ future_years' = r.future_years
    /\ model2' = r.model2
    /\ future_idx' = r.future_idx

Init ==
    /\ \E in \in Inputs : disk = in.disk /\ stream = in.stream
    /\ cached = FALSE
    /\ NoTables
    /\ page = "Overview"
    /\ brand = "All"
    /\ year = AllYears
    /\ outcome = "none"
    /\ raised = ""
    /\ done = {}
    /\ stations_count = <<>>
    /\ top10 = <<>>
    /\ charger_counts = {}
    /\ filtered = <<>>
    /\ infra = <<>>
    /\ growth = <<>>
    /\ model = NoModel
    /\ future_years = <<>>
    /\ model2 = NoModel
    /\ future_idx = <<>>

\* Line 16, on a cache miss: the four files are read, or the run dies.
LoadData ==
    /\ ~cached
    /\ IF FilesMissing(disk)
       THEN /\ Leaves([Fresh EXCEPT !.outcome = "fatal",
                                    !.raised = "FileNotFoundError"])
            /\ UNCHANGED <<cached, tables>>
       ELSE LET t == ReadCsv(disk)
            IN /\ cached' = TRUE
               /\ stations' = t.stations
               /\ models' = t.models
               /\ country_summary' = t.country_summary
               /\ world_summary' = t.world_summary
               /\ Leaves([Fresh EXCEPT !.outcome = "loaded"])
    /\ UNCHANGED <<disk, stream, page>>

RenderOverview ==
    /\ cached
    /\ page' = "Overview"
    /\ Leaves(Fresh)
    /\ UNCHANGED <<disk, stream, cached, tables>>

RenderGlobalInsights ==
    /\ cached
    /\ page' = "Global Insights"
    /\ \E t10 \in Top10Outcomes(StationsCount(stations)) :
          Leaves(GlobalInsights(stations, t10))
    /\ UNCHANGED <<disk, stream, cached, tables>>

RenderEVModels ==
    /\ cached
    /\ page' = "EV Models"
    /\ \E b \in BrandOptions(models), y \in YearOptions(models) :
          Leaves(EVModels(models, b, y))
    /\ UNCHANGED <<disk, stream, cached, tables>>

RenderChargingInfrastructure ==
    /\ cached
    /\ page' = "Charging Infrastructure"
    /\ LET r == ChargingInfrastructure(stations, country_summary, stream)
       IN /\ Leaves(r)
          /\ country_summary' = r.country_summary
    /\ UNCHANGED <<disk, stream, cached, stations, models, world_summary>>

RenderEVForecasts ==
    /\ cached
    /\ page' = "EV Forecasts"
    /\ Leaves(EVForecasts(models, world_summary))
    /\ UNCHANGED <<disk, stream, cached, tables>>

Next ==
    \/ LoadData
    \/ RenderOverview
    \/ RenderGlobalInsights
    \/ RenderEVModels
    \/ RenderChargingInfrastructure
    \/ RenderEVForecasts

Spec == Init /\ [][Next]_vars

----------------------------------------------------------------------------
(* The Forecaster alone: a series is fitted, then predicted at one x.  The *)
(* series is held in `growth`, the fit in `model`, the prediction in       *)
(* `future_years`.                                                         *)

SeriesXs == {2018, 2019, 2020}
SeriesYs == {10, 20, 30}
PredictXs == SeriesXs \cup {2021}
SeriesRows == [first_year : SeriesXs, count : SeriesYs]

SeriesX(g) == Rows([i \in 1..Len(g) |-> g[i].first_year])
SeriesY(g) == Rows([i \in 1..Len(g) |-> g[i].count])

InitFit ==
    /\ disk = Files(BaseStations, BaseModels, BaseSummary, BaseWorld, FileNames)
    /\ stream = BaseStream
    /\ cached = FALSE
    /\ NoTables
    /\ page = "EV Forecasts"
    /\ brand = "All"
    /\ year = AllYears
    /\ outcome = "none"
    /\ raised = ""
    /\ done = {}
    /\ stations_count = <<>>
    /\ top10 = <<>>
    /\ charger_counts = {}
    /\ filtered = <<>>
    /\ infra = <<>>
    /\ growth \in SeqsUpTo(SeriesRows, MaxSeries)
    /\ model = NoModel
    /\ future_years = <<>>
    /\ model2 = NoModel
    /\ future_idx = <<>>

\* model = LinearRegression().fit(X, y)
FitSeries ==
    /\ outcome = "none"
    /\ IF NoSamples(growth)
       THEN /\ outcome' = "exception"
            /\ raised' = "ValueError"
            /\ UNCHANGED <<model, done>>
       ELSE /\ model' = LinearRegressionFit(SeriesX(growth), SeriesY(growth))
            /\ done' = {"model"}
            /\ outcome' = "ok"
            /\ UNCHANGED raised
    /\ UNCHANGED <<disk, stream, cached, tables, widgets, stations_count, top10,
                   charger_counts, filtered, infra, growth, future_years,
                   model2, future_idx>>

\* model.predict at one x
PredictSeries ==
    /\ "model" \in done
    /\ \E x \in PredictXs :
          future_years' = PredictYears(model, {x})
    /\ done' = {"model", "future_years"}
    /\ UNCHANGED <<disk, stream, cached, tables, widgets, outcome, raised,
                   stations_count, top10, charger_counts, filtered, infra,
                   growth, model, model2, future_idx>>

NextFit == FitSeries \/ PredictSeries

SpecFit == InitFit /\ [][NextFit]_vars

----------------------------------------------------------------------------
(* Properties *)

FirstYears(t) == {t[i].first_year : i \in 1..Len(t)}
MakesOf(t) == {t[i].make : i \in 1..Len(t)}
Scenario == <<[make |-> "A", first_year |-> 2020],
              [make |-> "A", first_year |-> 2021],
              [make |-> "B", first_year |-> 2020]>>

\* A row passes when it equals every selection that is not "All".
Passes(r, b, y) == (b = "All" \/ r.make = b) /\ (y.all \/ r.first_year = y.value)

\* f holds exactly the rows of t that pass, in the order they have in t.
IsSubsequenceOfPassing(f, t, b, y) ==
    LET at == SortAsc({i \in 1..Len(t) : Passes(t[i], b, y)})
    IN /\ Len(f) = Len(at)
       /\ \A k \in 1..Len(at) : f[k] = t[at[k]]

\* C1: on the EV Models page, for a manufacturer selection (a make or "All")
\* and a launch-year selection (a year or "All"), the run raises nothing and
\* `filtered` is exactly the rows of models that equal every selection that is
\* not "All", in their original order; "All"/"All" gives models itself; a make
\* or a year that no row has gives the empty table.
C1_FilterIsMatchingSubsequence ==
    (page = "EV Models" /\ ~IntRaises(year)) =>
        /\ outcome = "ok"
        /\ "filtered" \in done
        /\ IsSubsequenceOfPassing(filtered, models, brand, year)
        /\ (brand = "All" /\ year.all) => filtered = models
        /\ \A b \in Makes \ MakesOf(models), y \in YearOptions(models) :
              IntRaises(y) \/ Filtered(models, b, y) = <<>>
        /\ \A v \in Years \ FirstYears(models), b \in BrandOptions(models) :
              Filtered(models, b, OneYear(v)) = <<>>

C1_Witness ==
    /\ page = "EV Models"
    /\ models = Scenario
    /\ brand = "A"
    /\ year = OneYear(2020)
    /\ filtered = <<[make |-> "A", first_year |-> 2020]>>

\* C2 (as claimed): the station_count values of stations_count sum to the
\* number of rows of stations, and the count values of growth sum to the
\* number of rows of models, rows with a missing key included.
C2_CountsSumToRows ==
    /\ "stations_count" \in done =>
          SumSeq([i \in 1..Len(stations_count) |-> stations_count[i].station_count])
            = Len(stations)
    /\ (page = "EV Forecasts" /\ "growth" \in done) =>
          SumSeq([i \in 1..Len(growth) |-> growth[i].count]) = Len(models)

\* C3: the Top-10 table has min(10, number of distinct country codes) rows,
\* each a distinct country with its number of stations; station_count is
\* non-increasing down the table; no country left out has more stations than
\* a country in the table.
C3_Top10 ==
    page = "Global Insights" =>
        LET n == Len(top10)
            inTable == {top10[k].country_code : k \in 1..n}
        IN /\ "top10" \in done
           /\ n = Min(TopN, Cardinality(CodeKeys(stations)))
           /\ Cardinality(inTable) = n
           /\ \A k \in 1..n :
                 /\ top10[k].country_code \in CodeKeys(stations)
                 /\ top10[k].station_count
                      = GroupSizeCode(stations, top10[k].country_code)
           /\ \A j, k \in 1..n :
                 j < k => top10[j].station_count >= top10[k].station_count
           /\ \A c \in CodeKeys(stations) \ inTable : \A k \in 1..n :
                 GroupSizeCode(stations, c) <= top10[k].station_count

C3_Witness ==
    /\ page = "Global Insights"
    /\ Cardinality(CodeKeys(stations)) > TopN
    /\ Len(top10) = TopN
    /\ top10[1].station_count > top10[TopN].station_count

\* C4 (as claimed): for every country_summary table the clustering gives
\* every row one cluster id, in the rows' order, with at most 3 distinct ids.
C4_OneClusterIdPerRow ==
    page = "Charging Infrastructure" =>
        /\ "infra" \in done
        /\ Len(infra) = Len(country_summary)
        /\ \A i \in 1..Len(infra) :
              /\ infra[i].country_code = country_summary[i].country_code
              /\ infra[i].stations = country_summary[i].stations
              /\ infra[i].cluster \in 0..(NClusters - 1)
        /\ Cardinality({infra[i].cluster : i \in 1..Len(infra)}) <= NClusters

Collinear == <<[first_year |-> 2018, count |-> 10],
               [first_year |-> 2019, count |-> 20],
               [first_year |-> 2020, count |-> 30]>>

PredictionIs(x, v) ==
    (future_years # <<>> /\ future_years[1].first_year = x) =>
        FracIs(future_years[1].prediction, v)

\* C5 (amended): for x = [2018, 2019, 2020], y = [10, 20, 30] the fit has
\* slope 10 and intercept -20170; it predicts 40 at 2021 and gives back
\* 10, 20, 30 at the observed years.
C5_CollinearFit ==
    (growth = Collinear /\ "model" \in done) =>
        /\ FracIs(model.coef, 10)
        /\ FracIs(model.intercept, 0 - 20170)
        /\ PredictionIs(2021, 40)
        /\ PredictionIs(2018, 10)
        /\ PredictionIs(2019, 20)
        /\ PredictionIs(2020, 30)

\* C5 (as claimed): slope 10, intercept -20190, and 40 predicted at 2021.
C5_AsClaimed ==
    (growth = Collinear /\ "model" \in done) =>
        /\ FracIs(model.coef, 10)
        /\ FracIs(model.intercept, 0 - 20190)
        /\ PredictionIs(2021, 40)

C5_Witness ==
    /\ growth = Collinear
    /\ "future_years" \in done
    /\ future_years[1].first_year = 2021
    /\ FracIs(future_years[1].prediction, 40)

\* Every predicted value of the table equals v.
FlatAt(rows, v) == \A i \in 1..Len(rows) : FracIs(rows[i].prediction, v)

\* C6 (as claimed): a forecast whose series has fewer than 2 distinct
\* x-values either reports "insufficient data" or predicts the single
\* observed y everywhere; the run does not end in an exception.
C6_DegenerateSeriesHandled ==
    page = "EV Forecasts" =>
        /\ Cardinality(YearKeys(models)) < 2 =>
              /\ outcome # "exception"
              /\ \/ outcome = "insufficient data"
                 \/ /\ "future_years" \in done
                    /\ Len(growth) = 1
                    /\ FlatAt(future_years, growth[1].count)
        /\ Len(world_summary) < 2 =>
              /\ outcome # "exception"
              /\ \/ outcome = "insufficient data"
                 \/ /\ "future_idx" \in done
                    /\ Len(world_summary) = 1
                    /\ FlatAt(future_idx, world_summary[1].count)

PageSteps ==
    [p \in Pages |->
        CASE p = "Overview" -> {}
          [] p = "Global Insights" -> {"stations_count", "top10"}
          [] p = "EV Models" -> {"filtered"}
          [] p = "Charging Infrastructure" -> {"charger_counts", "infra"}
          [] p = "EV Forecasts" ->
                {"growth", "model", "future_years", "model2", "future_idx"}]

\* What a run did not compute is not there: nothing of an earlier run is.
NothingCarried ==
    /\ done \subseteq PageSteps[page]
    /\ "stations_count" \notin done => stations_count = <<>>
    /\ "top10" \notin done => top10 = <<>>
    /\ "charger_counts" \notin done => charger_counts = {}
    /\ "filtered" \notin done => filtered = <<>> /\ (page # "EV Models" => brand = "All" /\ year = AllYears)
    /\ "infra" \notin done => infra = <<>>
    /\ "growth" \notin done => growth = <<>>
    /\ "model" \notin done => model = NoModel
    /\ "future_years" \notin done => future_years = <<>>
    /\ "model2" \notin done => model2 = NoModel
    /\ "future_idx" \notin done => future_idx = <<>>

\* C7: once loaded, the four source tables are what read_csv made of the
\* files, whatever pages were rendered since with whatever selections, and a
\* run holds no derived table of an earlier run.
C7_SourceTablesUnchanged ==
    cached =>
        /\ stations = ReadStations(disk.stations)
        /\ models = disk.models
        /\ country_summary = disk.country_summary
        /\ world_summary = disk.world_summary
        /\ NothingCarried

C7_Witness ==
    /\ page = "Charging Infrastructure"
    /\ "infra" \in done
    /\ Len(infra) > NClusters
    /\ \E i, j \in 1..Len(infra) : infra[i].cluster # infra[j].cluster

\* C8 (as claimed): an exception raised by a view's computation is caught
\* at the view and the view shows a placeholder, so the run does not end in
\* the exception; an exception of load_data is fatal and no view renders.
C8_ViewErrorsCaught ==
    /\ (cached /\ raised # "") => outcome = "placeholder"
    /\ (~cached /\ raised # "") => (outcome = "fatal" /\ done = {})

FirstSeen(t, c) == CHOOSE i \in 1..Len(t) :
                      /\ t[i].country_code = c
                      /\ \A j \in 1..(i - 1) : t[j].country_code # c

\* C9 (as claimed): of two countries with equal station counts the one met
\* first in the stations table comes first in the Top-10 table, and when
\* the tie is cut at 10 the ones met first are the ones kept.
C9_TiesByFirstEncounter ==
    "top10" \in done =>
        LET n == Len(top10)
            inTable == {top10[k].country_code : k \in 1..n}
        IN /\ \A j, k \in 1..n :
                 (j < k /\ top10[j].station_count = top10[k].station_count) =>
                     FirstSeen(stations, top10[j].country_code)
                       < FirstSeen(stations, top10[k].country_code)
           /\ \A c \in CodeKeys(stations) \ inTable : \A k \in 1..n :
                 GroupSizeCode(stations, c) = top10[k].station_count =>
                     FirstSeen(stations, top10[k].country_code)
                       < FirstSeen(stations, c)

MaxYear(t) == CHOOSE y \in YearKeys(t) : \A z \in YearKeys(t) : z <= y
MinYear(t) == CHOOSE y \in YearKeys(t) : \A z \in YearKeys(t) : y <= z

\* The x-values of a forecast table are exactly lo..hi, in order.
IsRangeYears(rows, lo, hi) ==
    /\ Len(rows) = hi - lo + 1
    /\ \A i \in 1..Len(rows) : rows[i].first_year = lo + i - 1
IsRangeIdx(rows, lo, hi) ==
    /\ Len(rows) = hi - lo + 1
    /\ \A i \in 1..Len(rows) : rows[i].idx = lo + i - 1

=============================================================================
